---- MODULE Spec2Model ----
(***************************************************************************)
(* Scoring and classification engine of the Taiwan stock scanner           *)
(* (src/stock_scanner.py, class TaiwanStockScanner) and its scan loop.     *)
(* Backtester.run_backtest (src/backtest_module.py) is modelled on top.    *)
(*                                                                         *)
(* Conventions                                                             *)
(*  - A data frame is a sequence of bars; bar i of the model is the row    *)
(*    with 0-based position i-1 of the pandas frame.                       *)
(*  - A float that may be NaN is <<>> (NaN) or <<v>> with v an integer.    *)
(*    A comparison with NaN is FALSE, as in numpy.                         *)
(*  - Prices are whole price units in the bars.  Every price column of     *)
(*    the indicator frame is held in ticks, PX ticks to the unit, so the   *)
(*    rolling means over 5, 14, 20, 50, 60 and 200 bars are exact.         *)
(*    Volume columns are held in VX-ths of a share for the same reason.    *)
(*  - Weights are in percent and scores in hundredths of a point, so       *)
(*    score * weight is exact: Total_Score 70.0 is 7000.                   *)
(***************************************************************************)
EXTENDS Integers, Sequences, FiniteSets, TLC

(***************************************************************************)
(* Constructor parameters, TaiwanStockScanner.__init__ (defaults).         *)
(***************************************************************************)
ma_short == 20
ma_long == 60
atr_period == 14
stop_loss_atr_mult == 2
\* vol_multiplier = 1.2 as the fraction vol_multiplier_num / 10
vol_multiplier_num == 12
min_score == 70

\* hard-coded windows and thresholds of calculate_indicators / calculate_scores
MA5_window == 5
MA50_window == 50
MA200_window == 200
MA20_Vol_window == 20
rsi_period == 14
High_60d_window == 60
Highest_Close_window == 14
persistence_window == 10
confirm_window == 5
strength_window == 20
min_bars == 60
liquidity_days == 20
rs_max_lookback == 250

\* ticks per price unit: a common multiple of every price window
PX == ma_long * atr_period * MA5_window
\* volume sub-units per share: a common multiple of the volume windows
VX == MA20_Vol_window
\* fixed-point unit of the Wilder smoothing
RSX == 100 * 100

NaN == <<>>
notna(x) == x # NaN
isna(x) == x = NaN

\* numpy comparisons: FALSE as soon as one side is NaN
Gt(x, y) == notna(x) /\ notna(y) /\ x[1] > y[1]
Ge(x, y) == notna(x) /\ notna(y) /\ x[1] >= y[1]
Lt(x, y) == notna(x) /\ notna(y) /\ x[1] < y[1]

Abs(n) == IF n < 0 THEN -n ELSE n
Max2(a, b) == IF a >= b THEN a ELSE b
Min2(a, b) == IF a <= b THEN a ELSE b

(***************************************************************************)
(* Raw columns of the fetched frame, in ticks.                             *)
(***************************************************************************)
InTicks(x, k) == IF isna(x) THEN NaN ELSE <<x[1] * k>>
Close(df, i) == InTicks(df[i].Close, PX)
High(df, i) == InTicks(df[i].High, PX)
Low(df, i) == InTicks(df[i].Low, PX)
Volume(df, i) == InTicks(df[i].Volume, VX)

(***************************************************************************)
(* pandas Series.rolling(window).mean() / .max() on a column s: NaN until  *)
(* the window is full, and NaN when a value of the window is NaN.          *)
(***************************************************************************)
\* the columns as series
Close_series(df) == [j \in 1..Len(df) |-> Close(df, j)]
High_series(df) == [j \in 1..Len(df) |-> High(df, j)]
Volume_series(df) == [j \in 1..Len(df) |-> Volume(df, j)]

\* sums by halves, to keep the evaluation shallow
RECURSIVE Sum(_, _, _)
Sum(v, lo, hi) ==
    IF lo > hi THEN 0
    ELSE IF lo = hi THEN v[lo]
    ELSE Sum(v, lo, (lo + hi) \div 2) + Sum(v, (lo + hi) \div 2 + 1, hi)

MaxOf(S) == CHOOSE m \in S : \A x \in S : m >= x

WindowNotna(s, lo, hi) == \A j \in lo..hi : notna(s[j])

rolling_mean(s, i, window) ==
    IF i < window \/ ~WindowNotna(s, i - window + 1, i) THEN NaN
    ELSE <<Sum([j \in DOMAIN s |-> s[j][1]], i - window + 1, i) \div window>>

rolling_max(s, i, window) ==
    IF i < window \/ ~WindowNotna(s, i - window + 1, i) THEN NaN
    ELSE <<MaxOf({s[j][1] : j \in (i - window + 1)..i})>>

(***************************************************************************)
(* calculate_indicators                                                    *)
(***************************************************************************)
\* series.diff() in whole price units; NaN on the first bar
delta(df, i) ==
    IF i = 1 \/ isna(df[i].Close) \/ isna(df[i - 1].Close) THEN NaN
    ELSE <<df[i].Close[1] - df[i - 1].Close[1]>>
\* delta.where(delta > 0, 0.0) and -delta.where(delta < 0, 0.0)
gain(df, i) == IF Gt(delta(df, i), <<0>>) THEN delta(df, i)[1] ELSE 0
loss(df, i) == IF Lt(delta(df, i), <<0>>) THEN -delta(df, i)[1] ELSE 0

gain_series(df) == [j \in 1..Len(df) |-> gain(df, j)]
loss_series(df) == [j \in 1..Len(df) |-> loss(df, j)]

\* Wilder smoothing, value * alpha + previous * (1 - alpha) with alpha =
\* 1 / period, in units of 1/RSX and rounded up, so that a positive average
\* never decays to zero (as it never does in float64 within a few hundred bars)
CeilDiv(a, b) == (a + b - 1) \div b
wilder_step(previous, value) ==
    CeilDiv(value * RSX + (rsi_period - 1) * previous, rsi_period)

\* the smoothed value of bar hi, given the one of bar lo - 1
RECURSIVE smoothed_run(_, _, _, _)
smoothed_run(v, previous, lo, hi) ==
    IF lo > hi THEN previous
    ELSE wilder_step(smoothed_run(v, previous, lo, hi - 1), v[hi])

\* the loop of calculate_rsi_wilder, taken one stretch of rsi_period bars at a
\* time: bar rsi_period holds the simple mean of the first rsi_period values
RECURSIVE smoothed(_, _)
smoothed(v, i) ==
    IF i = rsi_period
    THEN CeilDiv(Sum(v, 1, rsi_period) * RSX, rsi_period)
    ELSE LET from == rsi_period * ((i - 1) \div rsi_period)
         IN  CHOOSE x \in {smoothed_run(v, previous, from + 1, i) :
                             previous \in {smoothed(v, from)}} : TRUE

\* calculate_rsi_wilder returning 100 * rs, without line 296
calculate_rsi_unnormalised(df, i) ==
    IF i < rsi_period THEN NaN
    ELSE CHOOSE rsi \in
           {IF smoothed_loss = 0 THEN NaN
            ELSE <<(1000 * smoothed_gain) \div smoothed_loss>> :
              smoothed_gain \in {smoothed(gain_series(df), i)},
              smoothed_loss \in {smoothed(loss_series(df), i)}} : TRUE

\* calculate_rsi_wilder: rs = smoothed_gain / smoothed_loss.replace(0, nan),
\* rsi = 100 - 100 / (1 + rs), here in tenths of a point
calculate_rsi_wilder(df, i) ==
    IF i < rsi_period THEN NaN
    ELSE CHOOSE rsi \in
           {IF smoothed_loss = 0 THEN NaN
            ELSE <<(1000 * smoothed_gain) \div (smoothed_gain + smoothed_loss)>> :
              smoothed_gain \in {smoothed(gain_series(df), i)},
              smoothed_loss \in {smoothed(loss_series(df), i)}} : TRUE

\* ((High_60d - Close) / High_60d) * 100, in hundredths of a percent, where
\* High_60d > 0; NaN elsewhere
pullback_from_high(high_60d, close) ==
    IF notna(high_60d) /\ high_60d[1] > 0 /\ notna(close)
    THEN <<(((high_60d[1] - close[1]) \div PX) * 10000) \div (high_60d[1] \div PX)>>
    ELSE NaN

\* df[['High_Low','High_Close','Low_Close']].max(axis=1) skips NaN
True_Range(df, i) ==
    LET prev == IF i = 1 THEN NaN ELSE Close(df, i - 1)
        High_Low == IF notna(High(df, i)) /\ notna(Low(df, i))
                    THEN {High(df, i)[1] - Low(df, i)[1]} ELSE {}
        High_Close == IF notna(High(df, i)) /\ notna(prev)
                      THEN {Abs(High(df, i)[1] - prev[1])} ELSE {}
        Low_Close == IF notna(Low(df, i)) /\ notna(prev)
                     THEN {Abs(Low(df, i)[1] - prev[1])} ELSE {}
        parts == High_Low \cup High_Close \cup Low_Close
    IN  IF parts = {} THEN NaN
        ELSE <<MaxOf(parts)>>

True_Range_series(df) == [j \in 1..Len(df) |-> True_Range(df, j)]

\* the frame with its indicator columns added, the fetched columns kept
\* (... \o <<>> makes the frame an explicit sequence, computed once)
calculate_indicators(df) ==
    <<>> \o [i \in 1..Len(df) |->
        [Date |-> df[i].Date, Close |-> df[i].Close, High |-> df[i].High,
         Low |-> df[i].Low, Volume |-> df[i].Volume,
         MA5 |-> rolling_mean(Close_series(df), i, MA5_window),
         MA20 |-> rolling_mean(Close_series(df), i, ma_short),
         MA50 |-> rolling_mean(Close_series(df), i, MA50_window),
         MA60 |-> rolling_mean(Close_series(df), i, ma_long),
         MA200 |-> rolling_mean(Close_series(df), i, MA200_window),
         MA5_Vol |-> rolling_mean(Volume_series(df), i, MA5_window),
         MA20_Vol |-> rolling_mean(Volume_series(df), i, MA20_Vol_window),
         RSI14 |-> calculate_rsi_wilder(df, i),
         High_60d |-> rolling_max(High_series(df), i, High_60d_window),
         Pullback_From_60d_High |->
             pullback_from_high(rolling_max(High_series(df), i, High_60d_window),
                                Close(df, i)),
         ATR |-> rolling_mean(True_Range_series(df), i, atr_period)]]

\* the indicator columns of a frame that calculate_indicators returned
MA5(df, i) == df[i].MA5
MA20(df, i) == df[i].MA20
MA50(df, i) == df[i].MA50
MA60(df, i) == df[i].MA60
MA200(df, i) == df[i].MA200
MA5_Vol(df, i) == df[i].MA5_Vol
MA20_Vol(df, i) == df[i].MA20_Vol
RSI14(df, i) == df[i].RSI14
High_60d(df, i) == df[i].High_60d
Pullback_From_60d_High(df, i) == df[i].Pullback_From_60d_High
ATR(df, i) == df[i].ATR

(***************************************************************************)
(* calculate_relative_strength.  benchmark_df is the benchmark frame as a  *)
(* map from its index (Date) to Benchmark_Close, in whole price units;     *)
(* None is the empty frame (fetch_benchmark_data never returns one).       *)
(***************************************************************************)
None == <<>>

\* pd.merge(..., left_index=True, right_index=True, how='inner'): the
\* positions of the stock frame whose Date is in the benchmark index
merged(stock_df, benchmark_df) ==
    LET InBoth(i) == stock_df[i].Date \in DOMAIN benchmark_df
    IN  SelectSeq([i \in 1..Len(stock_df) |-> i], InBoth)

\* TRUE iff  a / b > p / 10  for b # 0
RatioGt(a, b, p) == IF b > 0 THEN 10 * a > p * b ELSE 10 * a < p * b

\* the score of row k of the merged frame, whose row r is the stock bar m[r]
rs_scores(stock_df, benchmark_df, m, k) ==
    LET lookback_days == Min2(rs_max_lookback, Len(m))
        \* the row the percent changes start from; 0 when none is computed
        start == IF Len(m) < rs_max_lookback
                 THEN (IF k > Min2(min_bars, Len(m)) THEN 1 ELSE 0)
                 ELSE (IF k > lookback_days THEN k - lookback_days ELSE 0)
        stock_start_price == stock_df[m[start]].Close
        benchmark_start_price == benchmark_df[stock_df[m[start]].Date]
        current_stock_price == stock_df[m[k]].Close
        current_benchmark_price == benchmark_df[stock_df[m[k]].Date]
        computed == /\ start > 0
                    /\ Gt(stock_start_price, <<0>>)
                    /\ benchmark_start_price > 0
        \* percent changes as fractions num / den with den > 0
        stock_num == current_stock_price[1] - stock_start_price[1]
        bench_num == current_benchmark_price - benchmark_start_price
        \* rs_ratio = (stock_num / stock_den) / (bench_num / bench_den)
        a == stock_num * benchmark_start_price
        b == stock_start_price[1] * bench_num
    IN  IF ~computed \/ isna(current_stock_price) \/ bench_num = 0
        THEN 40                           \* rs_ratio.fillna(1.0): 1.0 > 0.8
        ELSE IF RatioGt(a, b, 15) THEN 100
        ELSE IF RatioGt(a, b, 12) THEN 80
        ELSE IF RatioGt(a, b, 10) THEN 60
        ELSE IF RatioGt(a, b, 8) THEN 40
        ELSE 20

PositionIn(m, i) == CHOOSE k \in 1..Len(m) : m[k] = i

\* rs_series without the return of line 526, on an overlap under 60 bars
rs_series_unguarded(stock_df, benchmark_df, m) ==
    <<>> \o [i \in 1..Len(stock_df) |->
                IF \E k \in 1..Len(m) : m[k] = i
                THEN rs_scores(stock_df, benchmark_df, m, PositionIn(m, i))
                ELSE 50]

\* the series reindexed on the stock frame: 50 for a bar the merge dropped
rs_series(stock_df, benchmark_df, m) ==
    <<>> \o [i \in 1..Len(stock_df) |->
                IF Min2(rs_max_lookback, Len(m)) < min_bars THEN 50
                ELSE IF \E k \in 1..Len(m) : m[k] = i
                     THEN rs_scores(stock_df, benchmark_df, m, PositionIn(m, i))
                     ELSE 50]

\* the whole series, one score for each bar of the stock frame
calculate_relative_strength(stock_df, benchmark_df) ==
    IF benchmark_df = None THEN [i \in 1..Len(stock_df) |-> 50]
    ELSE CHOOSE rs \in {rs_series(stock_df, benchmark_df, m) :
                          m \in {merged(stock_df, benchmark_df)}} : TRUE

(***************************************************************************)
(* calculate_scores.  self is the scanner (its constructor parameters),    *)
(* df the frame calculate_indicators returned, rs the series              *)
(* calculate_relative_strength returned, i a bar.                          *)
(***************************************************************************)
Data_Error(df, i) ==
    \/ isna(Close(df, i)) \/ isna(MA5(df, i)) \/ isna(MA20(df, i))
    \/ isna(MA60(df, i)) \/ isna(ATR(df, i))

long_term_trend(df, i) ==
    Gt(Close(df, i), MA50(df, i)) /\ Gt(MA50(df, i), MA200(df, i))

pullback_20pct(df, i) == Ge(Pullback_From_60d_High(df, i), <<2000>>)

condition_ma20_ma60(df, i) == Ge(MA20(df, i), MA60(df, i))
rsi_stand_above_50(df, i) == Ge(RSI14(df, i), <<500>>)
volume_above_ma20(df, i) == Ge(Volume(df, i), MA20_Vol(df, i))

\* new_entry_trigger without its RSI condition
new_entry_trigger_without_rsi(df, i) ==
    condition_ma20_ma60(df, i) /\ volume_above_ma20(df, i)

new_entry_trigger(df, i) ==
    condition_ma20_ma60(df, i) /\ rsi_stand_above_50(df, i) /\ volume_above_ma20(df, i)

trend_foundation(df, i) ==
    Gt(Close(df, i), MA20(df, i)) /\ Gt(MA20(df, i), MA60(df, i))

golden_cross(df, i) == Gt(MA5(df, i), MA20(df, i))

\* np.abs((Close - MA20) / MA20) <= 0.03
price_near_ma20(df, i) ==
    /\ notna(Close(df, i)) /\ notna(MA20(df, i))
    /\ MA20(df, i)[1] # 0
    /\ 100 * Abs(Close(df, i)[1] - MA20(df, i)[1]) <= 3 * Abs(MA20(df, i)[1])

base_trend_score(df, i) ==
    IF trend_foundation(df, i)
    THEN IF golden_cross(df, i) /\ price_near_ma20(df, i) THEN 100
         ELSE IF golden_cross(df, i) THEN 80
         ELSE IF price_near_ma20(df, i) THEN 70
         ELSE 50
    ELSE 0

long_term_bonus(df, i) ==
    IF long_term_trend(df, i) /\ trend_foundation(df, i) THEN 5 ELSE 0

trend_score(df, i) == Min2(base_trend_score(df, i) + long_term_bonus(df, i), 100)

Trend_Score(self, df, i) == trend_score(df, i) * self.trend_weight

\* Volume > vol_multiplier * MA5_Vol
volume_above_avg(df, i) ==
    /\ notna(Volume(df, i)) /\ notna(MA5_Vol(df, i))
    /\ 10 * Volume(df, i)[1] > vol_multiplier_num * MA5_Vol(df, i)[1]

momentum_score(df, i) == IF volume_above_avg(df, i) THEN 100 ELSE 0

Momentum_Score(self, df, i) == momentum_score(df, i) * self.momentum_weight

RS_Score(self, rs, i) == rs[i] * self.relative_strength_weight

institutional_score == 50

Institutional_Score(self, df, i) == institutional_score * self.institutional_weight

\* Total_Score without its trend-foundation guard
Total_Score_unguarded(self, df, rs, i) ==
    Trend_Score(self, df, i) + Momentum_Score(self, df, i)
    + RS_Score(self, rs, i) + Institutional_Score(self, df, i)

Total_Score(self, df, rs, i) ==
    IF trend_foundation(df, i)
    THEN Trend_Score(self, df, i) + Momentum_Score(self, df, i)
         + RS_Score(self, rs, i) + Institutional_Score(self, df, i)
    ELSE 0

(***************************************************************************)
(* Risk levels, in ticks.                                                  *)
(***************************************************************************)
\* Stop_Loss_Price without the test ATR > 0 of its mask
Stop_Loss_Price_any_ATR(df, i) ==
    IF notna(ATR(df, i)) /\ notna(Close(df, i))
    THEN <<Close(df, i)[1] - ATR(df, i)[1] * stop_loss_atr_mult>>
    ELSE NaN

Stop_Loss_Price(df, i) ==
    IF notna(ATR(df, i)) /\ notna(Close(df, i)) /\ ATR(df, i)[1] > 0
    THEN <<Close(df, i)[1] - ATR(df, i)[1] * stop_loss_atr_mult>>
    ELSE NaN

\* df['Close'].rolling(window=14, min_periods=1).max(): the NaN are skipped
Highest_Close_14d(df, i) ==
    LET seen == {Close(df, j)[1] :
                   j \in {k \in Max2(1, i - Highest_Close_window + 1)..i :
                             notna(Close(df, k))}}
    IN  IF seen = {} THEN NaN ELSE <<MaxOf(seen)>>

trailing_stop_calc(df, i) ==
    <<Highest_Close_14d(df, i)[1] - ATR(df, i)[1] * stop_loss_atr_mult>>

\* trailing_used without condition2, the candidate below the close
trailing_used_unchecked(df, i) ==
    /\ Len(df) > 1
    /\ notna(Highest_Close_14d(df, i)) /\ notna(ATR(df, i)) /\ ATR(df, i)[1] > 0
    /\ notna(Stop_Loss_Price(df, i))
    /\ Gt(trailing_stop_calc(df, i), Stop_Loss_Price(df, i))

\* TRUE iff the trailing candidate replaces the initial stop on bar i
trailing_used(df, i) ==
    /\ Len(df) > 1
    /\ notna(Highest_Close_14d(df, i)) /\ notna(ATR(df, i)) /\ ATR(df, i)[1] > 0
    /\ notna(Stop_Loss_Price(df, i))
    /\ Gt(trailing_stop_calc(df, i), Stop_Loss_Price(df, i))
    /\ Lt(trailing_stop_calc(df, i), Close(df, i))

Trailing_Stop_Price(df, i) ==
    IF trailing_used(df, i) THEN trailing_stop_calc(df, i) ELSE Stop_Loss_Price(df, i)

(***************************************************************************)
(* Swing phase: the rolling persistence checks and the ordered labelling.  *)
(***************************************************************************)
ma20_above_ma60(df, i) == Gt(MA20(df, i), MA60(df, i))
close_above_ma20(df, i) == Gt(Close(df, i), MA20(df, i))

trend_foundation_10d(df, i) ==
    /\ Len(df) >= persistence_window /\ i >= persistence_window
    /\ Cardinality({j \in (i - persistence_window + 1)..i :
                       trend_foundation(df, j)}) >= 7

ma_arrangement_stable(df, i) ==
    /\ Len(df) >= persistence_window /\ i >= persistence_window
    /\ Cardinality({j \in (i - persistence_window + 1)..i :
                       ma20_above_ma60(df, j)}) >= 8

golden_cross_confirmed(df, i) ==
    /\ Len(df) >= confirm_window /\ i >= confirm_window
    /\ Cardinality({j \in (i - confirm_window + 1)..i : golden_cross(df, j)}) >= 3

price_above_ma20_stable(df, i) ==
    /\ Len(df) >= persistence_window /\ i >= persistence_window
    /\ Cardinality({j \in (i - persistence_window + 1)..i :
                       close_above_ma20(df, j)}) >= 7

\* (Close[i] - Close[i-10]) / Close[i-10] as <<numerator, denominator>> with a
\* positive denominator; 0.0 where the loop assigns nothing, NaN as NaN
trend_strength_10d(df, i) ==
    IF Len(df) >= strength_window /\ i >= strength_window
       /\ Gt(Close(df, i - persistence_window), <<0>>)
    THEN IF isna(Close(df, i)) THEN NaN
         ELSE <<Close(df, i)[1] - Close(df, i - persistence_window)[1],
                Close(df, i - persistence_window)[1]>>
    ELSE <<0, 1>>

\* f > pct / 100 and f < pct / 100 for such a fraction f
FracGt(f, pct) == notna(f) /\ 100 * (f[1] \div PX) > pct * (f[2] \div PX)
FracLt(f, pct) == notna(f) /\ 100 * (f[1] \div PX) < pct * (f[2] \div PX)

volume_sustained(df, i) ==
    /\ Len(df) >= confirm_window /\ i >= confirm_window
    /\ Cardinality({j \in (i - confirm_window + 1)..i :
                       volume_above_avg(df, j)}) >= 3

recent_pullback(df, i) ==
    /\ Len(df) >= confirm_window /\ i >= confirm_window
    /\ LET seen == {Close(df, j)[1] :
                      j \in {k \in (i - confirm_window + 1)..i : notna(Close(df, k))}}
           recent_high == IF seen = {} THEN NaN ELSE <<MaxOf(seen)>>
           current_price == Close(df, i)
       IN  /\ Gt(recent_high, <<0>>) /\ notna(current_price)
           /\ 100 * (recent_high[1] - current_price[1]) > 3 * recent_high[1]

valid_mask(df, i) ==
    /\ trend_foundation(df, i) /\ trend_foundation_10d(df, i)
    /\ ma_arrangement_stable(df, i) /\ price_above_ma20_stable(df, i)

initial_uptrend(df, i) ==
    /\ valid_mask(df, i)
    /\ golden_cross_confirmed(df, i)
    /\ 100 * Close(df, i)[1] <= 105 * MA20(df, i)[1]
    /\ FracGt(trend_strength_10d(df, i), 0)
    /\ volume_sustained(df, i)
    /\ ~recent_pullback(df, i)

\* the three later masks, without their "still unlabelled" conjunct
strong_uptrend(df, i) ==
    /\ valid_mask(df, i)
    /\ 100 * Close(df, i)[1] > 110 * MA20(df, i)[1]
    /\ FracGt(trend_strength_10d(df, i), 5)
    /\ volume_sustained(df, i)

pullback_buy(df, i) ==
    valid_mask(df, i) /\ price_near_ma20(df, i) /\ recent_pullback(df, i)

trend_weakening(df, i) ==
    /\ valid_mask(df, i)
    /\ (FracLt(trend_strength_10d(df, i), -3) \/ recent_pullback(df, i))

trend_ongoing(df, i) == valid_mask(df, i)

\* the column after each assignment of calculate_scores, in source order
Unlabelled == ""
\* status_0 with no bar labelled '不符合'
status_0_unlabelled(df, i) == Unlabelled
status_0(df, i) == IF trend_foundation(df, i) THEN Unlabelled ELSE "NotQualified"
status_1(df, i) == IF initial_uptrend(df, i) THEN "InitialUptrend" ELSE status_0(df, i)
status_2(df, i) ==
    IF strong_uptrend(df, i) /\ status_1(df, i) = Unlabelled
    THEN "MainUptrend" ELSE status_1(df, i)
status_3(df, i) ==
    IF pullback_buy(df, i) /\ status_2(df, i) = Unlabelled
    THEN "PullbackBuy" ELSE status_2(df, i)
\* status_4 with its assignment not limited to the bars still unlabelled
status_4_overwriting(df, i) ==
    IF trend_weakening(df, i) THEN "Weakening" ELSE status_3(df, i)
status_4(df, i) ==
    IF trend_weakening(df, i) /\ status_3(df, i) = Unlabelled
    THEN "Weakening" ELSE status_3(df, i)
swing_status(df, i) ==
    IF trend_ongoing(df, i) /\ status_4(df, i) = Unlabelled
    THEN "Trending" ELSE status_4(df, i)

\* suggested holding days: one value for the whole frame, from the slope of
\* MA60 between iloc[-slope_lookback] and iloc[-1]
slope_min_bars == 60
slope_lookback == 20
ma60_slope_gt(df, pct) ==
    LET last == MA60(df, Len(df))
        ref == MA60(df, Len(df) - slope_lookback + 1)
    IN  /\ Gt(ref, <<0>>) /\ notna(last)
        /\ 100 * (last[1] - ref[1]) > pct * ref[1]

holding_days(df) ==
    IF Len(df) >= slope_min_bars
    THEN IF ma60_slope_gt(df, 5) THEN 28
         ELSE IF ma60_slope_gt(df, 3) THEN 21
         ELSE IF ma60_slope_gt(df, 1) THEN 14
         ELSE 7
    ELSE 14

\* the columns calculate_scores adds to the indicator frame df
scored_columns(self, df, rs, days) ==
    <<>> \o [i \in 1..Len(df) |->
        [Date |-> df[i].Date, Close |-> df[i].Close, High |-> df[i].High,
         Low |-> df[i].Low, Volume |-> df[i].Volume,
         MA5 |-> MA5(df, i), MA20 |-> MA20(df, i), MA50 |-> MA50(df, i),
         MA60 |-> MA60(df, i), MA200 |-> MA200(df, i),
         MA5_Vol |-> MA5_Vol(df, i), MA20_Vol |-> MA20_Vol(df, i),
         RSI14 |-> RSI14(df, i), High_60d |-> High_60d(df, i),
         Pullback_From_60d_High |-> Pullback_From_60d_High(df, i),
         ATR |-> ATR(df, i),
         Data_Error |-> Data_Error(df, i),
         long_term_trend |-> long_term_trend(df, i),
         pullback_20pct |-> pullback_20pct(df, i),
         new_entry_trigger |-> new_entry_trigger(df, i),
         Trend_Score |-> Trend_Score(self, df, i),
         Momentum_Score |-> Momentum_Score(self, df, i),
         RS_Score |-> RS_Score(self, rs, i),
         Institutional_Score |-> Institutional_Score(self, df, i),
         Total_Score |-> Total_Score(self, df, rs, i),
         Stop_Loss_Price |-> Stop_Loss_Price(df, i),
         Trailing_Stop_Price |-> Trailing_Stop_Price(df, i),
         swing_status |-> swing_status(df, i),
         holding_days |-> days]]

(***************************************************************************)
(* The market the scanner reads: what the price service returns for each   *)
(* ticker, what the benchmark fetch can return, and the fundamentals       *)
(* verdict.  Volumes are in lots of 100 000 shares.                        *)
(***************************************************************************)
MaxBars == 80

\* a bar with its High and Low at a distance spread of its Close
Bar(d, c, v, spread) ==
    [Date |-> d, Close |-> <<c>>, High |-> <<c + spread>>,
     Low |-> <<c - spread>>, Volume |-> <<v>>]

\* n bars ending on day MaxBars: flat at base, then a move of dip, k moves of
\* d and a move of e (a zero move is left out); quiet volume but for the last
\* busy bars
History(n, base, dip, k, d, e, busy, quiet) ==
    LET hasdip == IF dip # 0 THEN 1 ELSE 0
        L == hasdip + k + (IF e # 0 THEN 1 ELSE 0)
        close(p) == IF p <= 0 THEN base
                    ELSE base + dip + d * Min2(Max2(p - hasdip, 0), k)
                         + (IF p = L /\ e # 0 THEN e ELSE 0)
    IN  [j \in 1..n |->
            Bar(j + MaxBars - n, close(j - (n - L)),
                IF j - (n - L) > L - busy THEN 3 * quiet ELSE quiet, 1)]

Flat == History(MaxBars, 100, 0, 0, 0, 0, 0, 10)
Spike == History(MaxBars, 100, 0, 3, 10, 0, 0, 10)
SpikePullback == History(MaxBars, 100, 0, 3, 4, -4, 1, 10)
SlowRise == History(MaxBars, 100, -2, 12, 1, 0, 1, 10)
SlowRiseQuiet == History(MaxBars, 100, -2, 12, 1, 0, 0, 10)
Surge == History(MaxBars, 100, -2, 12, 4, 0, 3, 10)
Dip == History(MaxBars, 100, -2, 12, 2, -12, 0, 10)
Fade == History(MaxBars, 100, 0, 12, 2, -7, 1, 10)
ShortThin == History(30, 100, 0, 3, 4, 0, 0, 2)
Short == History(30, 100, 0, 3, 4, 0, 0, 10)
Shortest == History(10, 100, 0, 3, 4, 0, 0, 10)
\* a slow rise on rising volume, and a rise that ends on a fall below MA20
Breakout == History(MaxBars, 200, -2, 12, 1, 0, 3, 10)
Break == History(MaxBars, 100, -2, 12, 2, -20, 0, 10)
\* the end of Surge, on a history of 70 bars
Recent == History(70, 100, -2, 12, 4, 0, 3, 10)
\* backtest_module.py line 80: a signal is followed up hold_bars bars later
hold_bars == 20

\* Surge ended hold_bars bars ago: its bars hold_bars days earlier, then the
\* close moving by drift a day on the volume of its last bar
AfterSurge(drift) ==
    [j \in 1..MaxBars |->
        IF j <= MaxBars - hold_bars
        THEN [Surge[j + hold_bars] EXCEPT !.Date = j]
        ELSE Bar(j, Surge[MaxBars].Close[1] + drift * (j - (MaxBars - hold_bars)),
                 Surge[MaxBars].Volume[1], 1)]

NoClose == [j \in 1..MaxBars |-> [Flat[j] EXCEPT !.Close = NaN]]
\* the closes and volumes of Surge, with no High and no Low
NoRange == [j \in 1..MaxBars |-> [Surge[j] EXCEPT !.High = NaN, !.Low = NaN]]

\* no move at all, High and Low on the Close: the true range is 0
Still == [j \in 1..MaxBars |-> Bar(j, 100, 10, 0)]

\* a long steady rise: RampBars bars ending on day MaxBars, the close up by
\* one unit a day, the volume constant
RampBars == 300
Ramp == [j \in 1..RampBars |-> Bar(j + MaxBars - RampBars, 100 + j, 10, 1)]

\* a ticker is its code and its suffix: '2330.TW' is ["2330", ".TW"]
Ticker(code, suffix) == [code |-> code, suffix |-> suffix]
len(stock_id) == Len(stock_id.code) + Len(stock_id.suffix)
endswith(stock_id, suffix) == stock_id.suffix = suffix
\* str.replace(old, new) for old, new in '.TW', '.TWO'
replace(stock_id, old, new) ==
    IF stock_id.suffix = old THEN Ticker(stock_id.code, new)
    ELSE IF old = ".TW" /\ stock_id.suffix = ".TWO"
         THEN Ticker(stock_id.code, new \o "O")
         ELSE stock_id

\* what ticker.history returns; the empty frame for an unknown ticker
Yahoo ==
    (Ticker("2330", ".TW") :> Surge) @@ (Ticker("2317", ".TW") :> Flat)
    @@ (Ticker("2382", ".TW") :> SpikePullback)
    @@ (Ticker("3231", ".TW") :> SlowRise) @@ (Ticker("3017", ".TW") :> Dip)
    @@ (Ticker("2376", ".TW") :> Spike) @@ (Ticker("2882", ".TW") :> Fade)
    @@ (Ticker("2603", ".TW") :> NoClose) @@ (Ticker("3037", ".TW") :> NoRange)
    @@ (Ticker("2881", ".TW") :> Still) @@ (Ticker("6451", ".TW") :> Ramp)
    @@ (Ticker("3450", ".TW") :> Breakout) @@ (Ticker("2454", ".TW") :> Break)
    @@ (Ticker("2303", ".TW") :> Recent)
    @@ (Ticker("2308", ".TW") :> AfterSurge(1))
    @@ (Ticker("2412", ".TW") :> AfterSurge(-1))
    @@ (Ticker("1513", ".TW") :> ShortThin)
    @@ (Ticker("1504", ".TW") :> <<>>) @@ (Ticker("3019", ".TW") :> Shortest)
    @@ (Ticker("00878", ".TW") :> Short) @@ (Ticker("00878", ".TWO") :> Spike)
    @@ (Ticker("00632", ".TW") :> <<>>) @@ (Ticker("00632", ".TWO") :> <<>>)
    @@ (Ticker("4979", ".TWO") :> SlowRiseQuiet)

\* the tickers with an unhealthy verdict of check_fundamental
Unhealthy == {Ticker("2882", ".TW"), Ticker("1504", ".TW")}

\* the tickers a stock list is made of
Symbols == DOMAIN Yahoo \ {Ticker("00878", ".TWO"), Ticker("00632", ".TWO")}

STOCK_NAMES ==
    (Ticker("2330", ".TW") :> "TSMC") @@ (Ticker("2317", ".TW") :> "HonHai")
    @@ (Ticker("4979", ".TWO") :> "LuxNet")

(***************************************************************************)
(* fetch_stock_data and fetch_benchmark_data.  A request that raises is    *)
(* answered like one that returns nothing: both methods catch and return   *)
(* None.                                                                   *)
(***************************************************************************)
history(stock_id) == IF stock_id \in DOMAIN Yahoo THEN Yahoo[stock_id] ELSE <<>>

fetch_stock_data(stock_id) ==
    LET alt_ticker_id == replace(stock_id, ".TW", ".TWO")
        hist_data == IF history(stock_id) = <<>>
                        /\ endswith(stock_id, ".TW") /\ len(stock_id) = 8
                     THEN history(alt_ticker_id)
                     ELSE history(stock_id)
    IN  IF hist_data = <<>> THEN None ELSE hist_data

\* the benchmark frames the index service can return, as maps Date -> close
FastIndex == [d \in 1..MaxBars |-> 100 + d]
\* an index whose history starts late: it shares min_bars / 2 dates with a
\* frame of MaxBars bars
LateIndex == [d \in (MaxBars - min_bars \div 2 + 1)..MaxBars |-> 100 + d]
\* an index that does not move
FlatIndex == [d \in 1..MaxBars |-> 100]
Benchmarks == {None, FastIndex, LateIndex, FlatIndex}

(***************************************************************************)
(* The scanners: TaiwanStockScanner() with its defaults, one with both     *)
(* filters off, one with equal weights and the liquidity filter only.      *)
(***************************************************************************)
TaiwanStockScanner(tw, mw, rw, iw, volume, fundamental, liquidity) ==
    [trend_weight |-> tw, momentum_weight |-> mw,
     relative_strength_weight |-> rw, institutional_weight |-> iw,
     min_avg_volume |-> volume,
     enable_fundamental_filter |-> fundamental,
     enable_liquidity_check |-> liquidity]

Scanners ==
    {TaiwanStockScanner(40, 30, 20, 10, 10, TRUE, TRUE),
     TaiwanStockScanner(40, 30, 20, 10, 10, FALSE, FALSE),
     TaiwanStockScanner(25, 25, 25, 25, 10, FALSE, TRUE)}

\* df['Volume'].tail(liquidity_days).mean() >= self.min_avg_volume
check_liquidity(self, df) ==
    IF ~self.enable_liquidity_check THEN TRUE
    ELSE IF df = None \/ Len(df) < liquidity_days THEN FALSE
    ELSE LET last == {j \in (Len(df) - liquidity_days + 1)..Len(df) :
                         notna(df[j].Volume)}
         IN  /\ last # {}
             /\ Sum([j \in 1..Len(df) |-> IF j \in last THEN df[j].Volume[1] ELSE 0],
                    Len(df) - liquidity_days + 1, Len(df))
                  >= self.min_avg_volume * Cardinality(last)

\* is_healthy of check_fundamental: TRUE when the filter is off
check_fundamental(self, stock_id) ==
    IF ~self.enable_fundamental_filter THEN TRUE
    ELSE stock_id \notin Unhealthy

\* the frames calculate_scores can be called on
Frames == {Yahoo[t] : t \in DOMAIN Yahoo} \ {<<>>}

\* line 597: calculate_indicators on each frame, computed once for all the
\* scanners and benchmarks
calculate_indicators_of == [df \in Frames |-> calculate_indicators(df)]

\* calculate_scores: the indicators, then the columns
calculate_scores(self, stock_df, benchmark_df) ==
    CHOOSE scored \in
        {scored_columns(self, df, rs, holding_days(df)) :
            df \in {calculate_indicators_of[stock_df]},
            rs \in {calculate_relative_strength(stock_df, benchmark_df)}} : TRUE

\* calculate_scores on each scanner, frame and benchmark
calculate_scores_of ==
    [self \in Scanners, df \in Frames, benchmark_df \in Benchmarks |->
        calculate_scores(self, df, benchmark_df)]

(***************************************************************************)
(* scan_stocks: the body of its loop for one instrument, after the         *)
(* progress callback.  A row of the result keeps the columns the claims    *)
(* read; note is the message of a terminal row.                            *)
(***************************************************************************)
\* the value of the local stock_name before its first assignment
Unbound == <<"unbound">>

\* STOCK_NAMES.get(key, default): a name is <<"name", text>>, a ticker used
\* as a name is <<"id", ticker>>
STOCK_NAMES_get(key, default) ==
    IF key \in DOMAIN STOCK_NAMES THEN <<"name", STOCK_NAMES[key]>> ELSE default

\* terminal_row with the default holding days and the phase of a bar
terminal_row_as_scored(stock_id, name, label, note) ==
    [stock_id |-> stock_id, stock_name |-> name, current_price |-> NaN,
     score |-> 0, signal |-> label, stop_loss |-> NaN, trailing_stop |-> NaN,
     take_profit |-> NaN, note |-> note, Date |-> NaN,
     swing_status |-> "NotQualified", holding_days |-> 14]

\* the row of an instrument that is not scored
terminal_row(stock_id, name, label, note) ==
    [stock_id |-> stock_id, stock_name |-> name, current_price |-> NaN,
     score |-> 0, signal |-> label, stop_loss |-> NaN, trailing_stop |-> NaN,
     take_profit |-> NaN, note |-> note, Date |-> NaN, swing_status |-> label,
     holding_days |-> 0]

\* the thresholds of the decision, in hundredths of a point
signal_high == 7000
signal_mid == 5000

\* the decision without the demotion of the phases Trending and Weakening
buy_signal_undemoted(total, swing, trigger) ==
    IF ~trigger
    THEN IF total > 0 THEN "Watch" ELSE "NoSignal"
    ELSE IF total >= signal_high THEN "StrongBuy"
         ELSE IF total >= signal_mid THEN "Buy"
         ELSE IF total > 0 THEN "Watch"
         ELSE "NoSignal"

\* the decision of lines 1099-1130 on the latest bar
buy_signal(total, swing, trigger) ==
    IF ~trigger
    THEN IF total >= signal_high
            /\ swing \in {"InitialUptrend", "MainUptrend", "PullbackBuy"}
         THEN "Watch"
         ELSE IF total >= signal_mid THEN "Watch"
         ELSE IF total > 0 THEN "Watch"
         ELSE "NoSignal"
    ELSE IF swing \in {"Trending", "Weakening"}
         THEN IF total >= signal_high THEN "Buy"
              ELSE IF total >= signal_mid THEN "Watch"
              ELSE IF total > 0 THEN "Watch"
              ELSE "NoSignal"
         ELSE IF total >= signal_high THEN "StrongBuy"
              ELSE IF total >= signal_mid THEN "Buy"
              ELSE IF total > 0 THEN "Watch"
              ELSE "NoSignal"

\* current_price + ATR * 2 where both are defined and ATR > 0
take_profit_price(latest) ==
    IF notna(latest.Close) /\ notna(latest.ATR) /\ latest.ATR[1] > 0
    THEN <<latest.Close[1] * PX + latest.ATR[1] * 2>>
    ELSE NaN

\* the name of a scored instrument: its own, that of its .TW version, or the
\* ticker itself (the price service is taken to know no name)
scored_name(stock_id) ==
    LET own == STOCK_NAMES_get(stock_id, None)
        tw == IF endswith(stock_id, ".TWO")
              THEN STOCK_NAMES_get(replace(stock_id, ".TWO", ".TW"), None)
              ELSE own
        found == IF own = None \/ own = <<"id", stock_id>> THEN tw ELSE own
    IN  IF found = None \/ found = <<"id", stock_id>> THEN <<"id", stock_id>>
        ELSE found

\* scored_row with the holding days of the frame whatever the signal
scored_row_raw_days(stock_id, latest) ==
    [stock_id |-> stock_id, stock_name |-> scored_name(stock_id),
     current_price |-> InTicks(latest.Close, PX),
     score |-> latest.Total_Score,
     signal |-> buy_signal(latest.Total_Score, latest.swing_status,
                           latest.new_entry_trigger),
     stop_loss |-> latest.Stop_Loss_Price,
     trailing_stop |-> latest.Trailing_Stop_Price,
     take_profit |-> take_profit_price(latest), note |-> "",
     Date |-> <<latest.Date>>, swing_status |-> latest.swing_status,
     holding_days |-> latest.holding_days]

\* the row of a scored instrument, from the latest bar of its scored frame
scored_row(stock_id, latest) ==
    LET signal == buy_signal(latest.Total_Score, latest.swing_status,
                             latest.new_entry_trigger)
    IN  [stock_id |-> stock_id, stock_name |-> scored_name(stock_id),
         current_price |-> InTicks(latest.Close, PX),
         score |-> latest.Total_Score, signal |-> signal,
         stop_loss |-> latest.Stop_Loss_Price,
         trailing_stop |-> latest.Trailing_Stop_Price,
         take_profit |-> take_profit_price(latest), note |-> "",
         Date |-> <<latest.Date>>, swing_status |-> latest.swing_status,
         holding_days |-> IF signal \in {"Buy", "StrongBuy"}
                          THEN latest.holding_days ELSE 0]

\* what one pass of the loop body leaves: the rows it appended (one or none),
\* the local stock_name, whether it raised, the tickers it fetched and
\* whether it called calculate_scores
Outcome(rows, name, raised, fetched, called) ==
    [rows |-> rows, stock_name |-> name, raised |-> raised,
     fetched |-> fetched, scored |-> called]

\* line 988: the scan retries under the other suffix
retries(stock_id) == endswith(stock_id, ".TW") /\ len(stock_id) = 8

\* lines 991-994: the retry returned enough bars, df and stock_id are replaced
switched(stock_id, df_alt) ==
    retries(stock_id) /\ df_alt # None /\ Len(df_alt) >= min_bars

\* lines 996-998: stock_name is assigned only where the frame is still short
name_bound(stock_id, df, name_before) ==
    IF df = None \/ Len(df) < min_bars
    THEN STOCK_NAMES_get(stock_id, <<"id", stock_id>>)
    ELSE name_before

\* lines 1000-1006: a .TWO ticker with no name of its own takes that of .TW
name_mapped(stock_id, name) ==
    IF endswith(stock_id, ".TWO") /\ name = <<"id", stock_id>>
    THEN STOCK_NAMES_get(replace(stock_id, ".TWO", ".TW"), <<"id", stock_id>>)
    ELSE name

\* lines 1009-1017
error_msg(df) ==
    IF df = None THEN "NotFound"
    ELSE IF Len(df) < min_bars THEN "Insufficient"
    ELSE "Unavailable"

\* lines 1000-1042 with the stock_id, df and stock_name lines 988-998 left:
\* reading stock_name unbound raises, else the row is appended and the pass
\* ended, whether or not the frame is still short
no_data_row(stock_id, df, name, fetched) ==
    IF endswith(stock_id, ".TWO") /\ name = Unbound
    THEN Outcome(<<>>, Unbound, TRUE, fetched, FALSE)
    ELSE Outcome(<<terminal_row(stock_id, name_mapped(stock_id, name), "NoData",
                                error_msg(df))>>,
                 name_mapped(stock_id, name), FALSE, fetched, FALSE)

\* lines 986-1042: the frame is missing or short; df_alt is what the fetch
\* under the other suffix returns.  The second test of the frame (line 996)
\* guards the assignment of stock_name only.
no_data(stock_id, df, df_alt, name_before) ==
    IF switched(stock_id, df_alt)
    THEN no_data_row(replace(stock_id, ".TW", ".TWO"), df_alt,
                     name_bound(replace(stock_id, ".TW", ".TWO"), df_alt,
                                name_before),
                     <<stock_id, replace(stock_id, ".TW", ".TWO")>>)
    ELSE no_data_row(stock_id, df, name_bound(stock_id, df, name_before),
                     IF retries(stock_id)
                     THEN <<stock_id, replace(stock_id, ".TW", ".TWO")>>
                     ELSE <<stock_id>>)

\* lines 1051-1056: the name on the row of a data error
error_name(stock_id) ==
    name_mapped(stock_id, STOCK_NAMES_get(stock_id, <<"id", stock_id>>))

\* latest_row with the test of the Close alone, Data_Error not read
latest_row_close_only(stock_id, latest) ==
    IF isna(latest.Close)
    THEN Outcome(<<terminal_row(stock_id, error_name(stock_id), "DataError",
                                "DataError")>>,
                 error_name(stock_id), FALSE, <<stock_id>>, TRUE)
    ELSE Outcome(<<scored_row(stock_id, latest)>>, scored_name(stock_id),
                 FALSE, <<stock_id>>, TRUE)

\* lines 1048-1202: the latest bar of the scored frame gives the row
latest_row(stock_id, latest) ==
    IF latest.Data_Error \/ isna(latest.Close)
    THEN Outcome(<<terminal_row(stock_id, error_name(stock_id), "DataError",
                                "DataError")>>,
                 error_name(stock_id), FALSE, <<stock_id>>, TRUE)
    ELSE Outcome(<<scored_row(stock_id, latest)>>, scored_name(stock_id),
                 FALSE, <<stock_id>>, TRUE)

\* lines 1045-1202: the frame is scored and its latest bar read
score_latest(self, stock_id, df, benchmark_df) ==
    latest_row(stock_id, calculate_scores_of[self, df, benchmark_df][Len(df)])

\* the row of an instrument a filter stopped
filtered(stock_id, label, note) ==
    Outcome(<<terminal_row(stock_id, STOCK_NAMES_get(stock_id, <<"id", stock_id>>),
                           label, note)>>,
            STOCK_NAMES_get(stock_id, <<"id", stock_id>>), FALSE, <<stock_id>>,
            FALSE)

\* the loop body with a short frame sent on to scoring
process_short_scored(self, stock_id, df, benchmark_df, name_before) ==
    IF df # None /\ Len(df) >= liquidity_days /\ ~check_liquidity(self, df)
    THEN filtered(stock_id, "InsufficientLiquidity", "InsufficientLiquidity")
    ELSE IF ~check_fundamental(self, stock_id) /\ self.enable_fundamental_filter
    THEN filtered(stock_id, "PoorFundamentals", "Unhealthy")
    ELSE IF df = None
    THEN no_data(stock_id, df,
                 fetch_stock_data(replace(stock_id, ".TW", ".TWO")), name_before)
    ELSE score_latest(self, stock_id, df, benchmark_df)

\* the loop body without its liquidity check
process_liquidity_ignored(self, stock_id, df, benchmark_df, name_before) ==
    IF ~check_fundamental(self, stock_id) /\ self.enable_fundamental_filter
    THEN filtered(stock_id, "PoorFundamentals", "Unhealthy")
    ELSE IF df = None \/ Len(df) < min_bars
    THEN no_data(stock_id, df,
                 fetch_stock_data(replace(stock_id, ".TW", ".TWO")), name_before)
    ELSE score_latest(self, stock_id, df, benchmark_df)

\* lines 938-1202: one instrument, from its fetched frame df to its row
process(self, stock_id, df, benchmark_df, name_before) ==
    IF df # None /\ Len(df) >= liquidity_days /\ ~check_liquidity(self, df)
    THEN filtered(stock_id, "InsufficientLiquidity", "InsufficientLiquidity")
    ELSE IF ~check_fundamental(self, stock_id) /\ self.enable_fundamental_filter
    THEN filtered(stock_id, "PoorFundamentals", "Unhealthy")
    ELSE IF df = None \/ Len(df) < min_bars
    THEN no_data(stock_id, df,
                 fetch_stock_data(replace(stock_id, ".TW", ".TWO")), name_before)
    ELSE score_latest(self, stock_id, df, benchmark_df)

(***************************************************************************)
(* scan_stocks as a state machine, and calculate_scores called on its own. *)
(***************************************************************************)
MaxStocks == 2

\* a stock list: up to MaxStocks tickers, repeats allowed
StockLists == UNION {[1..n -> Symbols] : n \in 0..MaxStocks}

\* the progress_callback argument: absent, or a function of the caller
callback == <<"callback">>
Callbacks == {None, callback}

\* DataFrame.sort_values('score', ascending=False) with the default kind,
\* quicksort, which keeps no order among equal scores: every arrangement of
\* the rows with non-increasing scores is a possible outcome
sort_values(rows) ==
    {<<>> \o [k \in 1..Len(rows) |-> rows[order[k]]] :
        order \in {perm \in Permutations(1..Len(rows)) :
                      \A a, b \in 1..Len(rows) :
                          a < b => rows[perm[a]].score >= rows[perm[b]].score}}

VARIABLES
    scanner,            \* self
    stock_list,         \* the stock_list argument of scan_stocks
    progress_callback,  \* its progress_callback argument
    benchmark,          \* benchmark_df
    index,              \* the number of instruments the loop is done with
    results,            \* the list results
    stock_name,         \* the local stock_name, which outlives a pass
    progress,           \* the calls the callback received
    log,                \* per instrument done: what its pass did
    pc,                 \* where the call is: "constructed", "loop", "returned"
    result_df,          \* the frame scan_stocks returns
    input_df,           \* the frame calculate_scores is called on
    scored_df           \* the frame calculate_scores returns

vars == <<scanner, stock_list, progress_callback, benchmark, index, results,
          stock_name, progress, log, pc, result_df, input_df, scored_df>>

\* a scanner and the arguments of one call of scan_stocks
Init ==
    /\ scanner \in Scanners
    /\ stock_list \in StockLists
    /\ progress_callback \in Callbacks
    /\ benchmark = None
    /\ index = 0
    /\ results = <<>>
    /\ stock_name = Unbound
    /\ progress = <<>>
    /\ log = <<>>
    /\ pc = "constructed"
    /\ result_df = <<>>
    /\ input_df = None
    /\ scored_df = <<>>

\* lines 913-916: the benchmark is fetched once, results starts empty
ScanStart ==
    /\ pc = "constructed"
    /\ input_df = None
    /\ benchmark' \in Benchmarks
    /\ results' = <<>>
    /\ index' = 0
    /\ pc' = "loop"
    /\ UNCHANGED <<scanner, stock_list, progress_callback, stock_name, progress,
                   log, result_df, input_df, scored_df>>

\* the call of line 921 with the 0-based position
progress_call_zero_based(i, total, stock_id, done) ==
    [args |-> <<i, total, stock_id>>, done |-> done]

\* line 921: progress_callback(i + 1, total, stock_id), i the 0-based position
\* of the instrument; done is the number of instruments whose pass has ended
\* when the call is made
progress_call(i, total, stock_id, done) ==
    [args |-> <<i + 1, total, stock_id>>, done |-> done]

\* an except clause that lets the exception leave scan_stocks
on_exception_reraise == "raised"

\* lines 1204-1206: except Exception: print, continue.  Where the loop is
\* after a pass that raised.
on_exception == "loop"

\* lines 918-1206: one pass of the loop.  The callback, code of the caller,
\* is called first, on the state the pass starts from, and may raise;
\* whatever is raised inside the try ends the pass with no row.
\* The sector lookup (line 924) and check_market_environment (line 929, which
\* catches what it raises) change nothing the scan keeps.
Iterate ==
    /\ pc = "loop"
    /\ index < Len(stock_list)
    /\ \E callback_raises \in IF progress_callback = None THEN {FALSE} ELSE BOOLEAN :
          LET stock_id == stock_list[index + 1]
              out == IF callback_raises
                     THEN Outcome(<<>>, stock_name, TRUE, <<>>, FALSE)
                     ELSE process(scanner, stock_id, fetch_stock_data(stock_id),
                                  benchmark, stock_name)
          IN  /\ progress' = IF progress_callback = None THEN progress
                             ELSE Append(progress,
                                         progress_call(index, Len(stock_list),
                                                       stock_id, Len(log)))
              /\ results' = results \o out.rows
              /\ stock_name' = out.stock_name
              /\ log' = Append(log, [stock_id |-> stock_id,
                                     callback_raised |-> callback_raises,
                                     raised |-> out.raised,
                                     rows |-> out.rows,
                                     fetched |-> out.fetched,
                                     scored |-> out.scored])
              /\ pc' = IF out.raised THEN on_exception ELSE "loop"
    /\ index' = index + 1
    /\ UNCHANGED <<scanner, stock_list, progress_callback, benchmark,
                   result_df, input_df, scored_df>>

\* lines 1208-1216: an empty frame, or the rows sorted by score
ScanFinish ==
    /\ pc = "loop"
    /\ index = Len(stock_list)
    /\ result_df' \in IF results = <<>> THEN {<<>>} ELSE sort_values(results)
    /\ pc' = "returned"
    /\ UNCHANGED <<scanner, stock_list, progress_callback, benchmark, index,
                   results, stock_name, progress, log, input_df, scored_df>>

Next == ScanStart \/ Iterate \/ ScanFinish

Spec == Init /\ [][Next]_vars

\* a scanner, a frame and a benchmark for one call of calculate_scores
InitScores ==
    /\ scanner \in Scanners
    /\ input_df \in Frames
    /\ benchmark \in Benchmarks
    /\ stock_list = <<>>
    /\ progress_callback = None
    /\ index = 0
    /\ results = <<>>
    /\ stock_name = Unbound
    /\ progress = <<>>
    /\ log = <<>>
    /\ pc = "constructed"
    /\ result_df = <<>>
    /\ scored_df = <<>>

\* lines 574-893: calculate_scores(input_df, benchmark)
CalculateScores ==
    /\ pc = "constructed"
    /\ input_df # None
    /\ scored_df' = calculate_scores_of[scanner, input_df, benchmark]
    /\ UNCHANGED <<scanner, stock_list, progress_callback, benchmark, index,
                   results, stock_name, progress, log, pc, result_df, input_df>>

NextScores == CalculateScores

SpecScores == InitScores /\ [][NextScores]_vars

(***************************************************************************)
(* Backtester.run_backtest (src/backtest_module.py).  The Backtester holds *)
(* the scanner; results is the dictionary the run returns, its returns in  *)
(* hundredths of a percent (rounded down) and its rates likewise.  The     *)
(* price service answers the backtest as it answers the scan.              *)
(***************************************************************************)
\* lines 81-83 and 93-99: the entry of details for the signal of bar i
detail(stock_id, scored, i) ==
    LET entry_price == scored[i].Close
        exit_price == scored[i + hold_bars].Close
    IN  [stock |-> stock_id, entry_date |-> scored[i].Date,
         entry_price |-> entry_price, exit_price |-> exit_price,
         return_pct |->
             IF notna(entry_price) /\ notna(exit_price) /\ entry_price[1] # 0
             THEN <<((exit_price[1] - entry_price[1]) * 10000) \div entry_price[1]>>
             ELSE NaN]

\* lines 74-99 for one instrument: the entries of its signals, in order.
\* buy_signals are the bars with Total_Score >= min_score (line 74); line 80
\* keeps those whose 0-based position + hold_bars is a position of the frame
trades(stock_id, scored) ==
    LET signals(i) == scored[i].Total_Score >= min_score * 100
        buy_signals == SelectSeq([i \in 1..Len(scored) |-> i], signals)
        followed(i) == i + hold_bars <= Len(scored)
        kept == SelectSeq(buy_signals, followed)
    IN  [k \in 1..Len(kept) |-> detail(stock_id, scored, kept[k])]

\* lines 85-99 with a statement that can raise between the count of the trade
\* and the count of its outcome (recorded as an entry with no stock)
record_interrupted(res, t) ==
    [res EXCEPT !.total_trades = @ + 1,
                !.details = Append(@, [t EXCEPT !.stock = None])]

\* lines 85-99: the dictionary after one more trade
record(res, t) ==
    [res EXCEPT !.total_trades = @ + 1,
                !.winning_trades = IF Gt(t.return_pct, <<0>>) THEN @ + 1 ELSE @,
                !.losing_trades = IF Gt(t.return_pct, <<0>>) THEN @ ELSE @ + 1,
                !.total_return = IF isna(@) \/ isna(t.return_pct) THEN NaN
                                 ELSE <<@[1] + t.return_pct[1]>>,
                !.details = Append(@, t)]

\* the dictionary after the first n trades of ts
RECURSIVE recorded(_, _, _)
recorded(res, ts, n) ==
    IF n = 0 THEN res ELSE record(recorded(res, ts, n - 1), ts[n])

\* lines 44-61: the dictionary is made and the benchmark fetched
BacktestStart ==
    /\ pc = "constructed"
    /\ input_df = None
    /\ results' = [total_trades |-> 0, winning_trades |-> 0,
                   losing_trades |-> 0, total_return |-> <<0>>,
                   avg_return_per_trade |-> <<0>>, win_rate |-> 0,
                   max_drawdown |-> 0, sharpe_ratio |-> 0, details |-> <<>>]
    /\ benchmark' \in Benchmarks
    /\ index' = 0
    /\ pc' = "backtest"
    /\ UNCHANGED <<scanner, stock_list, progress_callback, stock_name, progress,
                   log, result_df, input_df, scored_df>>

\* lines 63-103: one pass of the loop.  An instrument with no frame or fewer
\* than 60 bars is skipped.  Whatever a call of the pass raises ends the pass
\* (line 101): before the first trade is recorded, or after any of them.
BacktestIterate ==
    /\ pc = "backtest"
    /\ index < Len(stock_list)
    /\ LET stock_id == stock_list[index + 1]
           df == fetch_stock_data(stock_id)
       IN  IF df = None \/ Len(df) < min_bars
           THEN /\ results' = results
                /\ log' = Append(log, [stock_id |-> stock_id, raised |-> FALSE,
                                       scored |-> FALSE, rows |-> <<>>])
           ELSE \E raised \in BOOLEAN :
                  LET ts == trades(stock_id,
                                   calculate_scores_of[scanner, df, benchmark])
                  IN  \E n \in IF raised THEN 0..Len(ts) ELSE {Len(ts)} :
                        /\ results' = recorded(results, ts, n)
                        /\ log' = Append(log, [stock_id |-> stock_id,
                                               raised |-> raised,
                                               scored |-> TRUE,
                                               rows |-> SubSeq(ts, 1, n)])
    /\ index' = index + 1
    /\ UNCHANGED <<scanner, stock_list, progress_callback, benchmark, stock_name,
                   progress, pc, result_df, input_df, scored_df>>

\* lines 105-110: the rates, then the return
BacktestFinish ==
    /\ pc = "backtest"
    /\ index = Len(stock_list)
    /\ results' =
          IF results.total_trades > 0
          THEN [results EXCEPT
                  !.win_rate = (results.winning_trades * 10000)
                                 \div results.total_trades,
                  !.avg_return_per_trade =
                      IF isna(results.total_return) THEN NaN
                      ELSE <<results.total_return[1] \div results.total_trades>>]
          ELSE results
    /\ pc' = "backtested"
    /\ UNCHANGED <<scanner, stock_list, progress_callback, benchmark, index,
                   stock_name, progress, log, result_df, input_df, scored_df>>

NextBacktest == BacktestStart \/ BacktestIterate \/ BacktestFinish

\* a Backtester on a scanner, and the stock list of one call of run_backtest
\* (which takes no callback: the one of Init is not read)
SpecBacktest == Init /\ [][NextBacktest]_vars

\* a scanner and a stock list, then one call of scan_stocks or of run_backtest
SpecRuns == Init /\ [][Next \/ NextBacktest]_vars

(***************************************************************************)
(* Properties of calculate_scores, read on every bar of scored_df          *)
(* (specification SpecScores).                                             *)
(***************************************************************************)
Bars == 1..Len(scored_df)

\* close > short MA > long MA on bar i, all three defined
FoundationOn(i) ==
    LET c == Close(scored_df, i)
        short == scored_df[i].MA20
        long == scored_df[i].MA60
    IN  /\ notna(c) /\ notna(short) /\ notna(long)
        /\ c[1] > short[1] /\ short[1] > long[1]

\* C1: on every bar of a scored frame, whatever the weights and the other
\* components, Total_Score is 0 when the trend foundation is false.
C1_TotalZeroWithoutFoundation ==
    \A i \in Bars : ~FoundationOn(i) => scored_df[i].Total_Score = 0

\* a scored frame with a bar off the foundation whose relative-strength
\* component is positive, and a bar on the foundation with a positive total
C1_Witness ==
    /\ \E i \in Bars : /\ ~FoundationOn(i)
                       /\ scored_df[i].RS_Score > 0
                       /\ scored_df[i].Total_Score = 0
    /\ \E j \in Bars : FoundationOn(j) /\ scored_df[j].Total_Score > 0

\* C3, as the spec states it: every bar with the trend foundation true and
\* `valid` false has the swing phase Trending.
C3_InvalidBarsAreTrending ==
    \A i \in Bars :
        FoundationOn(i) /\ ~valid_mask(scored_df, i)
            => scored_df[i].swing_status = "Trending"

\* C4: on every bar with ATR defined and > 0 the trailing stop is not below
\* the static stop-loss; it is either the static stop-loss or the candidate
\* (14-bar highest close - ATR x multiplier), and the candidate only where it
\* is strictly above the static stop-loss and strictly below the close.  On a
\* bar with no close both stops are undefined.
C4_TrailingStopRatchet ==
    \A i \in Bars :
        LET stop == scored_df[i].Stop_Loss_Price
            trail == scored_df[i].Trailing_Stop_Price
        IN  notna(scored_df[i].ATR) /\ scored_df[i].ATR[1] > 0 =>
                IF isna(stop) THEN isna(trail) /\ isna(Close(scored_df, i))
                ELSE /\ notna(trail)
                     /\ trail[1] >= stop[1]
                     /\ \/ trail = stop
                        \/ /\ trail = trailing_stop_calc(scored_df, i)
                           /\ trail[1] > stop[1]
                           /\ trail[1] < Close(scored_df, i)[1]

\* a bar where the candidate is used: above the static stop-loss, below the
\* close
C4_Witness ==
    \E i \in Bars :
        /\ notna(scored_df[i].ATR) /\ scored_df[i].ATR[1] > 0
        /\ notna(scored_df[i].Stop_Loss_Price)
        /\ scored_df[i].Trailing_Stop_Price[1] > scored_df[i].Stop_Loss_Price[1]
        /\ scored_df[i].Trailing_Stop_Price[1] < Close(scored_df, i)[1]

\* C15: every defined value of RSI14 lies in [0, 100] (the column is in
\* tenths of a point).
C15_RSIBounded ==
    \A i \in Bars :
        notna(scored_df[i].RSI14) =>
            scored_df[i].RSI14[1] >= 0 /\ scored_df[i].RSI14[1] <= 1000

\* a series with a bar at RSI 0 (losses only so far), a bar above 90 and a
\* bar below 50 after gains
C15_Witness ==
    /\ \E i \in Bars : scored_df[i].RSI14 = <<0>>
    /\ \E i \in Bars : Gt(scored_df[i].RSI14, <<900>>)
    /\ \E i \in Bars : /\ Gt(scored_df[i].RSI14, <<0>>)
                       /\ Lt(scored_df[i].RSI14, <<500>>)

\* C16, as the spec states it: from a bar to the next the trailing stop never
\* goes down, where it is defined on both.
C16_TrailingStopNeverRetreats ==
    \A i \in Bars :
        i > 1 /\ notna(scored_df[i].Trailing_Stop_Price)
              /\ notna(scored_df[i - 1].Trailing_Stop_Price)
            => scored_df[i].Trailing_Stop_Price[1]
                 >= scored_df[i - 1].Trailing_Stop_Price[1]

\* C17, as the spec states it: on the 300-bar series with a constant daily
\* rise and a constant volume, the trend foundation is false on the bars
\* with no long MA and true on every later bar; the phase is NotQualified on
\* the former and Trending or InitialUptrend on every one of the latter.
C17_SteadyRisePhases ==
    input_df = Ramp /\ scored_df # <<>> =>
        \A i \in Bars :
            IF isna(scored_df[i].MA60)
            THEN /\ ~FoundationOn(i)
                 /\ scored_df[i].swing_status = "NotQualified"
            ELSE /\ FoundationOn(i)
                 /\ scored_df[i].swing_status \in {"Trending", "InitialUptrend"}

\* the first of the five phases, in the order of the spec, whose condition
\* holds on a `valid` bar
FirstMatch(i) ==
    IF initial_uptrend(scored_df, i) THEN "InitialUptrend"
    ELSE IF strong_uptrend(scored_df, i) THEN "MainUptrend"
    ELSE IF pullback_buy(scored_df, i) THEN "PullbackBuy"
    ELSE IF trend_weakening(scored_df, i) THEN "Weakening"
    ELSE "Trending"

\* C19: on every `valid` bar the phase is the first of InitialUptrend,
\* MainUptrend, PullbackBuy, Weakening, Trending whose condition holds, so one
\* of these five; a condition that holds later in the order changes nothing.
C19_FirstMatchOnValidBars ==
    \A i \in Bars :
        valid_mask(scored_df, i) =>
            /\ scored_df[i].swing_status = FirstMatch(i)
            /\ scored_df[i].swing_status
                 \in {"InitialUptrend", "MainUptrend", "PullbackBuy",
                      "Weakening", "Trending"}

\* a frame with a valid bar labelled PullbackBuy on which the condition of
\* Weakening holds too, and a valid bar that matches none of the first four
C19_Witness ==
    /\ \E i \in Bars :
          /\ valid_mask(scored_df, i)
          /\ pullback_buy(scored_df, i) /\ trend_weakening(scored_df, i)
          /\ scored_df[i].swing_status = "PullbackBuy"
    /\ \E i \in Bars :
          valid_mask(scored_df, i) /\ scored_df[i].swing_status = "Trending"

\* C20: the phase of a bar is NotQualified exactly when the trend foundation
\* is false on it, whatever the persistence checks say: the bars the first
\* assignment labels NotQualified are the bars that end NotQualified.
C20_NotQualifiedIffNoFoundation ==
    \A i \in Bars :
        /\ scored_df[i].swing_status = "NotQualified" <=> ~FoundationOn(i)
        /\ scored_df[i].swing_status = "NotQualified"
              <=> status_0(scored_df, i) = "NotQualified"

\* a bar off the foundation on which the three persistence checks of `valid`
\* hold, labelled NotQualified, after a bar on the foundation with a phase
C20_Witness ==
    \E i \in Bars :
        /\ i > 1
        /\ ~FoundationOn(i)
        /\ trend_foundation_10d(scored_df, i)
        /\ ma_arrangement_stable(scored_df, i)
        /\ price_above_ma20_stable(scored_df, i)
        /\ scored_df[i].swing_status = "NotQualified"
        /\ FoundationOn(i - 1)
        /\ scored_df[i - 1].swing_status = "Trending"

\* the smoothed average loss of bar i, NaN before the RSI period
AverageLoss(i) ==
    IF i < rsi_period THEN NaN ELSE <<smoothed(loss_series(scored_df), i)>>

\* C21, as the spec states it: on a bar at or past the RSI period whose
\* smoothed average loss is 0, RSI14 is defined and equal to 100 (1000 tenths).
C21_RSIHundredWithoutLoss ==
    \A i \in Bars :
        AverageLoss(i) = <<0>> => scored_df[i].RSI14 = <<1000>>

\* short MA >= long MA, RSI >= 50 and volume >= 20-day volume MA on bar i,
\* with the five values defined (the volume MA is in VX-ths of a share)
TriggerConditions(bar) ==
    /\ notna(bar.MA20) /\ notna(bar.MA60) /\ notna(bar.RSI14)
    /\ notna(bar.Volume) /\ notna(bar.MA20_Vol)
    /\ bar.MA20[1] >= bar.MA60[1]
    /\ bar.RSI14[1] >= 500
    /\ bar.Volume[1] * VX >= bar.MA20_Vol[1]

\* one of the five values is undefined on the bar
TriggerInputUndefined(bar) ==
    \/ isna(bar.MA20) \/ isna(bar.MA60) \/ isna(bar.RSI14)
    \/ isna(bar.Volume) \/ isna(bar.MA20_Vol)

\* C22: the entry trigger of a bar is true if and only if short MA >= long MA,
\* RSI >= 50 and volume >= 20-day volume MA all hold with the five values
\* defined; it is false on a bar where one of them is undefined.
C22_EntryTriggerIsThreeWayAnd ==
    \A i \in Bars :
        /\ scored_df[i].new_entry_trigger <=> TriggerConditions(scored_df[i])
        /\ TriggerInputUndefined(scored_df[i]) => ~scored_df[i].new_entry_trigger

\* a frame with a bar where the trigger fires, a bar where the MA and the
\* volume conditions hold and the RSI is undefined, and a bar where the five
\* values are defined and the RSI condition alone fails
C22_Witness ==
    /\ \E i \in Bars : scored_df[i].new_entry_trigger
    /\ \E i \in Bars :
          /\ Ge(scored_df[i].MA20, scored_df[i].MA60)
          /\ Ge(Volume(scored_df, i), scored_df[i].MA20_Vol)
          /\ isna(scored_df[i].RSI14)
          /\ ~scored_df[i].new_entry_trigger
    /\ \E i \in Bars :
          /\ ~TriggerInputUndefined(scored_df[i])
          /\ scored_df[i].MA20[1] >= scored_df[i].MA60[1]
          /\ scored_df[i].RSI14[1] < 500
          /\ scored_df[i].Volume[1] * VX >= scored_df[i].MA20_Vol[1]
          /\ ~scored_df[i].new_entry_trigger

\* the relative-strength score of bar i, in points
RelativeStrength(i) == scored_df[i].RS_Score \div scanner.relative_strength_weight

\* the bars whose date the benchmark has too, and the rank of bar i among them
Aligned == {i \in Bars : scored_df[i].Date \in DOMAIN benchmark}
AlignedRank(i) == Cardinality({j \in Aligned : j <= i})

\* the aligned bar the percent changes of bar i start from: the first one when
\* fewer than 250 bars are aligned, the one 250 aligned bars earlier otherwise;
\* 0 when bar i is too early in the aligned series
StartBar(i) ==
    LET n == Cardinality(Aligned)
        back == IF n < rs_max_lookback
                THEN (IF AlignedRank(i) > min_bars THEN AlignedRank(i) - 1 ELSE 0)
                ELSE (IF AlignedRank(i) > rs_max_lookback THEN rs_max_lookback ELSE 0)
    IN  IF back = 0 THEN 0
        ELSE CHOOSE j \in Aligned : AlignedRank(j) = AlignedRank(i) - back

\* a lookback percent change can be computed for bar i: the bar is aligned,
\* late enough, and both start prices are positive
ChangeComputed(i) ==
    /\ i \in Aligned
    /\ StartBar(i) > 0
    /\ Gt(scored_df[StartBar(i)].Close, <<0>>)
    /\ benchmark[scored_df[StartBar(i)].Date] > 0

\* C23, as the spec states it: when at least 60 bars overlap with the
\* benchmark, a bar for which no lookback percent change can be computed has
\* the relative-strength score 50, and a bar with a computed ratio has one of
\* 100, 80, 60, 40, 20.
C23_UnmappedBarsAreNeutral ==
    scored_df # <<>> /\ Cardinality(Aligned) >= min_bars =>
        \A i \in Bars :
            IF ChangeComputed(i)
            THEN RelativeStrength(i) \in {100, 80, 60, 40, 20}
            ELSE RelativeStrength(i) = 50

\* the benchmark closes on bar i where it closed on the start bar of bar i
BenchmarkUnchanged(i) ==
    benchmark[scored_df[i].Date] = benchmark[scored_df[StartBar(i)].Date]

\* C24, as the spec states it: on a bar with sufficient history where the
\* percent change of the benchmark over the lookback is 0, the
\* relative-strength score is the neutral score 50, whatever the percent
\* change of the instrument.
C24_FlatBenchmarkIsNeutral ==
    scored_df # <<>> /\ Cardinality(Aligned) >= min_bars =>
        \A i \in Bars :
            ChangeComputed(i) /\ BenchmarkUnchanged(i)
                => RelativeStrength(i) = 50

\* the long MA of the latest bar and of the reference bar, 20 bars from the
\* end; NaN where the frame has no such bar
LatestLongMA == scored_df[Len(scored_df)].MA60
ReferenceLongMA ==
    IF Len(scored_df) >= 20 THEN scored_df[Len(scored_df) - 19].MA60 ELSE NaN

\* the slope of the long MA between the two bars is above pct percent
SlopeAbove(pct) ==
    /\ Gt(ReferenceLongMA, <<0>>) /\ notna(LatestLongMA)
    /\ 100 * (LatestLongMA[1] - ReferenceLongMA[1]) > pct * ReferenceLongMA[1]

\* C25, as the spec states it: the suggested holding days are 28, 21, 14 or 7
\* by the slope of the long MA (> 5%, > 3%, > 1%, else), and 14 whenever the
\* long MA of the reference bar is undefined, on frames of 60 bars or more
\* too.
C25_HoldingDaysBySlope ==
    scored_df # <<>> =>
        \A i \in Bars :
            scored_df[i].holding_days =
                IF isna(ReferenceLongMA) THEN 14
                ELSE IF SlopeAbove(5) THEN 28
                ELSE IF SlopeAbove(3) THEN 21
                ELSE IF SlopeAbove(1) THEN 14
                ELSE 7

(***************************************************************************)
(* Properties of scan_stocks, read on the log of the passes done           *)
(* (specification Spec).                                                   *)
(***************************************************************************)
Passes == 1..Len(log)

\* the pass got as far as fetching the history
Fetched(k) == log[k].fetched # <<>>

\* the latest bar of the frame the scan scored in pass k
LatestOf(k) ==
    LET scored == calculate_scores_of[scanner, fetch_stock_data(log[k].stock_id),
                                      benchmark]
    IN  scored[Len(scored)]

\* the decision table of the spec; totals in hundredths
DecisionTable(total, phase, trigger) ==
    IF ~trigger THEN (IF total > 0 THEN "Watch" ELSE "NoSignal")
    ELSE IF phase \in {"Trending", "Weakening"}
         THEN (IF total >= 7000 THEN "Buy"
               ELSE IF total > 0 THEN "Watch" ELSE "NoSignal")
         ELSE (IF total >= 7000 THEN "StrongBuy"
               ELSE IF total >= 5000 THEN "Buy"
               ELSE IF total > 0 THEN "Watch" ELSE "NoSignal")

\* the pass scored its instrument and the latest bar carried no data error
ScoredRow(k) ==
    /\ log[k].scored /\ log[k].rows # <<>>
    /\ log[k].rows[1].signal # "DataError"

NoSixtyBars(k) ==
    LET df == fetch_stock_data(log[k].stock_id)
    IN  df = None \/ Len(df) < 60

\* the pass fetched the alternate suffix and got 60 bars or more
AlternateSupplies(k) ==
    /\ Len(log[k].fetched) = 2
    /\ fetch_stock_data(log[k].fetched[2]) # None
    /\ Len(fetch_stock_data(log[k].fetched[2])) >= 60

\* the liquidity filter is on and the mean volume of the last 20 bars of the
\* frame is below min_avg_volume
LiquidityFails(k) ==
    LET df == fetch_stock_data(log[k].stock_id)
    IN  /\ scanner.enable_liquidity_check
        /\ df # None /\ Len(df) >= 20
        /\ Sum([j \in 1..Len(df) |-> df[j].Volume[1]], Len(df) - 19, Len(df))
             < 20 * scanner.min_avg_volume

\* the fundamentals filter is on and reports the instrument unhealthy
FundamentalsFail(k) ==
    scanner.enable_fundamental_filter /\ log[k].stock_id \in Unhealthy

\* pass k left exactly one row, terminal, with this label and score 0, and
\* did not call calculate_scores
TerminalRow(k, label) ==
    /\ Len(log[k].rows) = 1
    /\ log[k].rows[1].signal = label
    /\ log[k].rows[1].score = 0
    /\ isna(log[k].rows[1].current_price)
    /\ ~log[k].scored

\* the rows in the order a stable sort by descending score leaves them
StableOrder(rows) ==
    CHOOSE perm \in Permutations(1..Len(rows)) :
        \A a, b \in 1..Len(rows) :
            a < b => \/ rows[perm[a]].score > rows[perm[b]].score
                     \/ /\ rows[perm[a]].score = rows[perm[b]].score
                        /\ perm[a] < perm[b]

\* C5, as the spec states it: the returned table is in non-increasing order
\* of score, rows of equal score in the order of their instruments in the
\* input list.
C5_SortedAndStable ==
    pc = "returned" =>
        /\ Len(result_df) = Len(results)
        /\ \A k \in 1..Len(results) :
               result_df[k] = results[StableOrder(results)[k]]

\* C6, as the spec states it: after the scan of N instruments the result holds
\* N rows, one for each instrument of the list, whatever path each took.
C6_OneRowPerInstrument ==
    pc = "returned" =>
        /\ Len(result_df) = Len(stock_list)
        /\ \A k \in Passes : Len(log[k].rows) = 1

\* C7, as the spec states it: an instrument whose fetch returns nothing or
\* fewer than 60 bars, the retry not supplying 60, gets the terminal row
\* 'no data' with score 0 whatever the filters, and is not scored.
C7_NoDataWhateverFilters ==
    \A k \in Passes :
        Fetched(k) /\ NoSixtyBars(k) /\ ~AlternateSupplies(k)
            => TerminalRow(k, "NoData")

\* C7, amended: such an instrument gets one terminal row with score 0 and is
\* not scored; the row is labelled 'no data' when no enabled filter fails for
\* it, and else carries the label of the filter that failed, the liquidity
\* filter first.
C7_NoDataAfterFilters ==
    \A k \in Passes :
        Fetched(k) /\ NoSixtyBars(k) /\ ~AlternateSupplies(k)
            => TerminalRow(k, IF LiquidityFails(k) THEN "InsufficientLiquidity"
                              ELSE IF FundamentalsFail(k) THEN "PoorFundamentals"
                              ELSE "NoData")

\* under a scanner with both filters on: an instrument with a short frame
\* and one not found, each with its 'no data' row
C7_Witness ==
    /\ scanner.enable_liquidity_check /\ scanner.enable_fundamental_filter
    /\ \E k \in Passes :
          /\ fetch_stock_data(log[k].stock_id) # None
          /\ NoSixtyBars(k) /\ TerminalRow(k, "NoData")
    /\ \E k \in Passes :
          /\ Fetched(k) /\ fetch_stock_data(log[k].stock_id) = None
          /\ TerminalRow(k, "NoData")

\* C8, as the spec states it: when the scan finds fewer than 60 bars under the
\* listed suffix and the fetch of the alternate suffix returns 60 or more,
\* the instrument is scored and its row is not the 'no data' row.
C8_AlternateSeriesIsScored ==
    \A k \in Passes :
        NoSixtyBars(k) /\ AlternateSupplies(k)
            => /\ log[k].scored
               /\ Len(log[k].rows) = 1
               /\ log[k].rows[1].signal # "NoData"

\* C9: when an enabled liquidity or fundamentals filter fails for an
\* instrument the scan leaves a terminal row with the label of that filter
\* and score 0, does not call calculate_scores, and goes on: the passes done
\* are as many as the instruments the loop is past, all of them at the return.
C9_FilterFailureShortCircuits ==
    /\ \A k \in Passes :
          /\ Fetched(k) /\ LiquidityFails(k)
                => TerminalRow(k, "InsufficientLiquidity")
          /\ Fetched(k) /\ ~LiquidityFails(k) /\ FundamentalsFail(k)
                => TerminalRow(k, "PoorFundamentals")
    /\ Len(log) = index
    /\ pc = "returned" => Len(log) = Len(stock_list)

\* a liquidity failure followed by the pass of the next instrument, and a
\* fundamentals failure
C9_Witness ==
    /\ \E k \in Passes :
          /\ LiquidityFails(k) /\ TerminalRow(k, "InsufficientLiquidity")
          /\ k < Len(log)
    /\ \E k \in Passes :
          FundamentalsFail(k) /\ TerminalRow(k, "PoorFundamentals")

\* the rows of the first n passes, in order
RECURSIVE LoggedRows(_)
LoggedRows(n) == IF n = 0 THEN <<>> ELSE LoggedRows(n - 1) \o log[n].rows

\* C10: an exception raised in the pass of one instrument does not abort the
\* scan: the pass leaves no row, the loop goes on with the next instrument,
\* and scan_stocks returns a table made of the rows of the other passes.
C10_ExceptionDoesNotAbort ==
    /\ pc \in {"constructed", "loop", "returned"}
    /\ pc = "loop" => index < Len(stock_list) \/ ENABLED ScanFinish
    /\ Len(log) = index
    /\ results = LoggedRows(Len(log))
    /\ \A k \in Passes : log[k].raised => log[k].rows = <<>>
    /\ pc = "returned" =>
          /\ Len(log) = Len(stock_list)
          /\ Len(result_df) = Len(results)
          /\ \A row \in {results[k] : k \in 1..Len(results)} :
                Cardinality({k \in 1..Len(results) : result_df[k] = row})
                  = Cardinality({k \in 1..Len(results) : results[k] = row})

\* a return after a pass that raised and a later pass that left its row
C10_Witness ==
    /\ pc = "returned"
    /\ \E k \in Passes :
          /\ log[k].raised
          /\ k < Len(log)
          /\ log[k + 1].rows # <<>>
          /\ \E n \in 1..Len(result_df) : result_df[n] = log[k + 1].rows[1]

\* the frame calculate_scores returned in pass k
ScoredFrame(k) ==
    calculate_scores_of[scanner, fetch_stock_data(log[k].stock_id), benchmark]

\* the bars of the instrument of pass k whose date the benchmark has too
Overlap(k) ==
    LET df == fetch_stock_data(log[k].stock_id)
    IN  Cardinality({i \in 1..Len(df) : df[i].Date \in DOMAIN benchmark})

\* the relative strength of every bar of a scored frame is 50
NeutralOnEveryBar(frame) ==
    \A i \in 1..Len(frame) :
        frame[i].RS_Score = 50 * scanner.relative_strength_weight

\* C11: when the benchmark is unavailable, or shares fewer than 60 dates with
\* the instrument, the relative strength of every bar of the instrument is
\* exactly 50 (RS_Score is 50 x its weight), and the pass neither raises nor
\* fails to leave its row.
C11_NeutralRelativeStrength ==
    \A k \in Passes :
        log[k].scored /\ (benchmark = None \/ Overlap(k) < 60) =>
            /\ ~log[k].raised
            /\ Len(log[k].rows) = 1
            /\ NeutralOnEveryBar(ScoredFrame(k))

\* a scored instrument of 60 bars or more under a benchmark that shares
\* fewer than 60 and more than 0 dates with it
C11_Witness ==
    \E k \in Passes :
        /\ log[k].scored /\ benchmark # None
        /\ Overlap(k) > 0 /\ Overlap(k) < 60
        /\ Len(ScoredFrame(k)) >= 60
        /\ ~log[k].raised /\ Len(log[k].rows) = 1
        /\ ScoredFrame(k)[Len(ScoredFrame(k))].RS_Score
             = 50 * scanner.relative_strength_weight

\* one of Close, MA5, short MA, long MA and ATR is undefined on the latest bar
\* of the frame scored in pass k
LatestUndefined(k) ==
    \/ isna(LatestOf(k).Close) \/ isna(LatestOf(k).MA5)
    \/ isna(LatestOf(k).MA20) \/ isna(LatestOf(k).MA60)
    \/ isna(LatestOf(k).ATR)

\* C12: an instrument that reaches scoring with 60 bars or more and has one
\* of Close, MA5, short MA, long MA, ATR undefined on its latest bar gets one
\* terminal row 'data error': score 0, no price, no stop, and a signal that is
\* none of Watch, Buy, StrongBuy.
C12_DataErrorRow ==
    \A k \in Passes :
        /\ log[k].scored
        /\ Len(fetch_stock_data(log[k].stock_id)) >= 60
        /\ LatestUndefined(k)
        => /\ Len(log[k].rows) = 1
           /\ log[k].rows[1].signal = "DataError"
           /\ log[k].rows[1].signal \notin {"Watch", "Buy", "StrongBuy"}
           /\ log[k].rows[1].score = 0
           /\ isna(log[k].rows[1].current_price)
           /\ isna(log[k].rows[1].stop_loss)
           /\ isna(log[k].rows[1].trailing_stop)
           /\ isna(log[k].rows[1].take_profit)

\* two data-error rows: one for a latest bar with no Close, one for a latest
\* bar whose Close and MAs are defined, the total positive, and the ATR not
C12_Witness ==
    /\ \E k \in Passes :
          /\ log[k].scored /\ isna(LatestOf(k).Close)
          /\ log[k].rows[1].signal = "DataError"
    /\ \E k \in Passes :
          /\ log[k].scored
          /\ notna(LatestOf(k).Close) /\ notna(LatestOf(k).MA60)
          /\ isna(LatestOf(k).ATR)
          /\ LatestOf(k).Total_Score > 0
          /\ log[k].rows[1].signal = "DataError"
          /\ log[k].rows[1].score = 0

\* ATR is defined and > 0 on a bar
PositiveATR(bar) == notna(bar.ATR) /\ bar.ATR[1] > 0

\* the stop-loss and the trailing stop of a bar are both defined, or both not
StopsDefined(bar) ==
    notna(bar.Stop_Loss_Price) /\ notna(bar.Trailing_Stop_Price)
StopsUndefined(bar) ==
    isna(bar.Stop_Loss_Price) /\ isna(bar.Trailing_Stop_Price)

\* the three risk levels on the row of pass k
RowLevelsDefined(k) ==
    /\ notna(log[k].rows[1].stop_loss) /\ notna(log[k].rows[1].trailing_stop)
    /\ notna(log[k].rows[1].take_profit)
RowLevelsUndefined(k) ==
    /\ isna(log[k].rows[1].stop_loss) /\ isna(log[k].rows[1].trailing_stop)
    /\ isna(log[k].rows[1].take_profit)

\* on every bar of a frame: the stops defined where ATR is defined and > 0
\* (and, with_close, the Close defined), undefined elsewhere
StopsFollow(frame, with_close) ==
    \A i \in 1..Len(frame) :
        IF PositiveATR(frame[i]) /\ (with_close => notna(frame[i].Close))
        THEN StopsDefined(frame[i])
        ELSE StopsUndefined(frame[i])

\* C13, as the spec states it: on every bar of a scored frame the stop-loss
\* and the trailing stop are undefined where ATR is undefined or <= 0 and
\* defined where ATR is defined and > 0; so is, on the row, the take-profit,
\* which the scan computes for the latest bar.
C13_RiskLevelsFollowATR ==
    \A k \in Passes :
        log[k].scored /\ Len(log[k].rows) = 1 =>
            /\ StopsFollow(ScoredFrame(k), FALSE)
            /\ IF PositiveATR(LatestOf(k)) THEN RowLevelsDefined(k)
               ELSE RowLevelsUndefined(k)

\* C13, amended: the three levels are defined on the bars where ATR is
\* defined and > 0 and the Close is defined, and undefined on every other
\* bar.
C13_RiskLevelsFollowATRAndClose ==
    \A k \in Passes :
        log[k].scored /\ Len(log[k].rows) = 1 =>
            /\ StopsFollow(ScoredFrame(k), TRUE)
            /\ IF PositiveATR(LatestOf(k)) /\ notna(LatestOf(k).Close)
               THEN RowLevelsDefined(k)
               ELSE RowLevelsUndefined(k)

\* a scored instrument whose latest ATR is 0, its three levels undefined on
\* a row with a price, and one with a positive ATR and its three levels
C13_Witness ==
    /\ \E k \in Passes :
          /\ log[k].scored /\ Len(log[k].rows) = 1
          /\ LatestOf(k).ATR = <<0>>
          /\ notna(log[k].rows[1].current_price)
          /\ RowLevelsUndefined(k)
    /\ \E k \in Passes :
          /\ log[k].scored /\ Len(log[k].rows) = 1
          /\ PositiveATR(LatestOf(k))
          /\ RowLevelsDefined(k)
          /\ isna(ScoredFrame(k)[1].ATR)
          /\ StopsUndefined(ScoredFrame(k)[1])

\* call n of the callback is the call for instrument n of the list
CallFor(n) ==
    progress[n].args = <<n, Len(stock_list), stock_list[n]>>

\* one call for each instrument the loop is past, all of them at the return
OneCallEach ==
    /\ Len(progress) = IF progress_callback = None THEN 0 ELSE index
    /\ \A n \in 1..Len(progress) : CallFor(n)
    /\ pc = "returned" /\ progress_callback # None
          => Len(progress) = Len(stock_list)

\* C14, as the spec states it: the callback is invoked exactly once for each
\* instrument, with (position, total, instrument id), and the call for an
\* instrument is made once that instrument has been completed.
C14_CallbackOnCompletion ==
    /\ OneCallEach
    /\ \A n \in 1..Len(progress) : progress[n].done >= n

\* C14, amended: the callback, when one is given, is invoked exactly once for
\* each instrument, in list order, with (position, total, instrument id), and
\* the call for an instrument is made before its pass: when every earlier
\* instrument has been completed and this one has not.
C14_CallbackBeforeProcessing ==
    /\ OneCallEach
    /\ \A n \in 1..Len(progress) : progress[n].done = n - 1

\* a scan of two instruments with a callback: two calls, the second made
\* when one pass had ended, and both passes left a row
C14_Witness ==
    /\ pc = "returned" /\ progress_callback # None
    /\ Len(stock_list) = 2 /\ Len(progress) = 2
    /\ CallFor(1) /\ CallFor(2)
    /\ progress[1].done = 0 /\ progress[2].done = 1
    /\ \A k \in Passes : Len(log[k].rows) = 1

\* the latest bar of a scored frame has the trend foundation and fails a
\* persistence check
FoundationNotValid(frame) ==
    trend_foundation(frame, Len(frame)) /\ ~valid_mask(frame, Len(frame))

\* C18, as the spec states it: a scored instrument whose latest bar has the
\* trend foundation and is not `valid` never gets StrongBuy; with the entry
\* trigger and a total of 70 or more it gets Buy.
C18_InvalidLatestIsDemoted ==
    \A k \in Passes :
        ScoredRow(k) /\ FoundationNotValid(ScoredFrame(k)) =>
            /\ log[k].rows[1].signal # "StrongBuy"
            /\ LatestOf(k).new_entry_trigger /\ LatestOf(k).Total_Score >= 7000
                  => log[k].rows[1].signal = "Buy"

\* the scanner has the default weights 0.40 / 0.30 / 0.20 / 0.10
DefaultWeights ==
    /\ scanner.trend_weight = 40 /\ scanner.momentum_weight = 30
    /\ scanner.relative_strength_weight = 20
    /\ scanner.institutional_weight = 10

\* on every bar of a scored frame the total is 0 off the trend foundation; on
\* it the total is the sum of its four parts, the trend part 0.40 x 50..100,
\* the momentum part 0.30 x 0 or 100, the relative strength 0.20 x 20..100
\* and the institutional part 0.10 x 50: between 29 and 95 points
TotalsInRange(frame) ==
    \A i \in 1..Len(frame) :
        IF trend_foundation(frame, i)
        THEN /\ frame[i].Trend_Score
                  \in {40 * t : t \in {50, 55, 70, 75, 80, 85, 100}}
             /\ frame[i].Momentum_Score \in {0, 30 * 100}
             /\ frame[i].RS_Score \in {20 * r : r \in {20, 40, 50, 60, 80, 100}}
             /\ frame[i].Institutional_Score = 10 * 50
             /\ frame[i].Total_Score
                  = frame[i].Trend_Score + frame[i].Momentum_Score
                    + frame[i].RS_Score + frame[i].Institutional_Score
             /\ frame[i].Total_Score >= 2900 /\ frame[i].Total_Score <= 9500
        ELSE frame[i].Total_Score = 0

\* C27: with the default weights the total score of any bar is 0 or between
\* 29 and 95: positive on every bar where the trend foundation holds, 0 on the
\* others, never 100; so the signal of a scored instrument (one whose row is
\* not the data-error row) is NoSignal exactly when the trend foundation is
\* false on its latest bar.
C27_TotalScoreRange ==
    \A k \in Passes :
        DefaultWeights /\ log[k].scored =>
            /\ TotalsInRange(ScoredFrame(k))
            /\ ScoredRow(k) =>
                  (log[k].rows[1].signal = "NoSignal"
                      <=> ~trend_foundation(ScoredFrame(k), Len(ScoredFrame(k))))

\* under the default weights: an instrument whose latest bar is off the
\* foundation, with NoSignal, after a bar on the foundation with a positive
\* total and the entry trigger; and one on the foundation with another signal
C27_Witness ==
    /\ DefaultWeights
    /\ \E k \in Passes :
          /\ ScoredRow(k) /\ log[k].rows[1].signal = "NoSignal"
          /\ LatestOf(k).RS_Score > 0
          /\ \E i \in 1..Len(ScoredFrame(k)) :
                ScoredFrame(k)[i].Total_Score >= 2900
    /\ \E k \in Passes :
          /\ ScoredRow(k) /\ log[k].rows[1].signal \in {"Watch", "Buy", "StrongBuy"}
          /\ trend_foundation(ScoredFrame(k), Len(ScoredFrame(k)))
          /\ log[k].rows[1].score >= 2900

\* the labels of the terminal rows, and the signals of the others
TerminalLabels == {"InsufficientLiquidity", "PoorFundamentals", "NoData", "DataError"}
Signals == {"NoSignal", "Watch", "Buy", "StrongBuy"}

\* a terminal row: score 0, no holding days, no price, no risk level, and
\* its label for phase
TerminalShape(row) ==
    /\ row.score = 0 /\ row.holding_days = 0
    /\ isna(row.current_price)
    /\ isna(row.stop_loss) /\ isna(row.trailing_stop) /\ isna(row.take_profit)
    /\ row.swing_status = row.signal

\* C28: every row of the scan carries a terminal label or one of the four
\* signals; a terminal row (insufficient liquidity, poor fundamentals, no
\* data, data error) has score 0, holding days 0, no price and no risk level;
\* a row with Watch, Buy or StrongBuy exists only for an instrument that
\* passed both filters, had 60 bars or more and went through calculate_scores.
C28_TerminalRows ==
    \A k \in Passes :
        \A n \in 1..Len(log[k].rows) :
            LET row == log[k].rows[n]
            IN  /\ row.signal \in TerminalLabels \cup Signals
                /\ row.signal \in TerminalLabels => TerminalShape(row)
                /\ ~log[k].scored => row.signal \in TerminalLabels \ {"DataError"}
                /\ row.signal \in {"Watch", "Buy", "StrongBuy"} =>
                      /\ log[k].scored
                      /\ ~LiquidityFails(k) /\ ~FundamentalsFail(k)
                      /\ ~NoSixtyBars(k)

\* under a scanner with both filters on: the terminal row of an instrument
\* the fundamentals filter stopped, whose frame of 60 bars or more would have
\* scored above 0, and a row with Buy or StrongBuy
C28_Witness ==
    /\ scanner.enable_liquidity_check /\ scanner.enable_fundamental_filter
    /\ \E k \in Passes :
          /\ TerminalRow(k, "PoorFundamentals")
          /\ TerminalShape(log[k].rows[1])
          /\ ~NoSixtyBars(k)
          /\ LatestOf(k).Total_Score > 0
    /\ \E k \in Passes :
          /\ log[k].scored /\ Len(log[k].rows) = 1
          /\ log[k].rows[1].signal \in {"Buy", "StrongBuy"}

\* C29: in every row of the scan the suggested holding days are non-zero only
\* if the signal is Buy or StrongBuy, and then they are the holding days of
\* the scored frame; a row with Watch, NoSignal or a terminal label reports 0
\* holding days, whatever the slope of the long MA.
C29_HoldingDaysNeedBuy ==
    \A k \in Passes :
        \A n \in 1..Len(log[k].rows) :
            LET row == log[k].rows[n]
            IN  /\ row.holding_days # 0 => row.signal \in {"Buy", "StrongBuy"}
                /\ row.signal \in {"Watch", "NoSignal"} \cup TerminalLabels
                      => row.holding_days = 0
                /\ row.signal \in {"Buy", "StrongBuy"}
                      => row.holding_days = LatestOf(k).holding_days

\* a Watch row with 0 holding days for a frame whose slope gives 28, and a
\* row with Buy or StrongBuy that reports the holding days of its frame
C29_Witness ==
    /\ \E k \in Passes :
          /\ ScoredRow(k) /\ log[k].rows[1].signal = "Watch"
          /\ LatestOf(k).holding_days = 28
          /\ log[k].rows[1].holding_days = 0
    /\ \E k \in Passes :
          /\ ScoredRow(k) /\ log[k].rows[1].signal \in {"Buy", "StrongBuy"}
          /\ log[k].rows[1].holding_days = LatestOf(k).holding_days
          /\ log[k].rows[1].holding_days > 0

(***************************************************************************)
(* Properties of run_backtest, read on its dictionary and on the log of    *)
(* the passes done (specification SpecBacktest).                           *)
(***************************************************************************)
\* run_backtest has been called
Backtesting == pc \in {"backtest", "backtested"}

\* the three counts of the dictionary agree with each other and with details
CountsAgree ==
    /\ results.winning_trades + results.losing_trades = results.total_trades
    /\ results.total_trades = Len(results.details)

\* entry t of details is the trade of a bar of the frame scored in pass k:
\* a bar with Total_Score >= min_score and at least later bars after it
TradeOfBar(k, t, later) ==
    \E i \in 1..Len(ScoredFrame(k)) :
        /\ ScoredFrame(k)[i].Date = t.entry_date
        /\ ScoredFrame(k)[i].Total_Score >= min_score * 100
        /\ Len(ScoredFrame(k)) - i >= later

\* every entry of details is the trade of such a bar of its instrument
TradesOfBars(later) ==
    /\ results.details = LoggedRows(Len(log))
    /\ \A k \in Passes :
          \A n \in 1..Len(log[k].rows) :
              /\ log[k].rows[n].stock = log[k].stock_id
              /\ TradeOfBar(k, log[k].rows[n], later)

\* C30, as the spec states it: after any run, winning_trades + losing_trades
\* = total_trades = the number of entries of details, and a trade is counted
\* only for a bar with Total_Score >= min_score that more than 20 later bars
\* follow in its series.
C30_TradesNeedMoreThanTwentyBars ==
    Backtesting => CountsAgree /\ TradesOfBars(hold_bars + 1)

\* C30, amended: the counts agree at every point of a run, passes that raise
\* or find no data included, and a trade is counted only for a bar with
\* Total_Score >= min_score that at least 20 later bars follow: the bar 20
\* bars later, which gives the exit price, may be the last of the series.
C30_TradesNeedTwentyBars ==
    Backtesting => CountsAgree /\ TradesOfBars(hold_bars)

\* a finished run of two instruments with a winning and a losing trade, each
\* of a bar that exactly 20 bars follow, the first pass having raised after
\* its trade was recorded
C30_Witness ==
    /\ pc = "backtested"
    /\ Len(log) = 2
    /\ log[1].raised /\ Len(log[1].rows) = 1
    /\ results.total_trades = 2
    /\ results.winning_trades = 1 /\ results.losing_trades = 1
    /\ \A k \in Passes :
          \A n \in 1..Len(log[k].rows) : ~TradeOfBar(k, log[k].rows[n], hold_bars + 1)

(***************************************************************************)
(* Properties of both runs (specification SpecRuns).                       *)
(***************************************************************************)
\* scan_stocks has been called
Scanning == pc \in {"loop", "returned"}

\* the pass called calculate_scores, and on a frame of 60 bars or more
ScoredOnSixtyBars(k) ==
    log[k].scored =>
        /\ fetch_stock_data(log[k].stock_id) # None
        /\ Len(fetch_stock_data(log[k].stock_id)) >= 60

\* the backtest skipped the instrument of pass k
Skipped(k) == ~log[k].scored /\ ~log[k].raised /\ log[k].rows = <<>>

====
